---- MODULE Spec2Model ----
(***************************************************************************)
(* Model of Tools::LineEq (lineEq.h / lineEq.cpp): a line through two      *)
(* points, evaluated with output clamping.                                 *)
(*                                                                         *)
(* Every field of lineEq_t and every argument is a C++ `float`.  The code  *)
(* is modelled with IEEE-754 binary32 arithmetic, round-to-nearest-even,   *)
(* each operation rounded on its own (no excess precision, no fused        *)
(* multiply-add), including subnormals, signed zeros, infinities and NaN.  *)
(* The arguments of create and evaluate are finite floats.                 *)
(***************************************************************************)
EXTENDS Integers, Sequences, FiniteSets, TLC

(***************************************************************************)
(* binary32                                                                *)
(*                                                                         *)
(* A float is a record [k, s, m, e]:                                       *)
(*   k = "fin": the value (-1)^s * m * 2^e, in canonical form              *)
(*              (2^23 <= m < 2^24 and MinExp <= e <= MaxExp, or            *)
(*               m < 2^23 and e = MinExp: zero and the subnormals);        *)
(*   k = "inf": the infinity of sign s;    k = "nan": a NaN.               *)
(***************************************************************************)
MantBits == 24
MinExp == -149
MaxExp == 104

Pow2(n) == 2^n

BitLen(n) ==
  IF n = 0 THEN 0
  ELSE CHOOSE k \in 1..31 : Pow2(k - 1) <= n /\ (k = 31 \/ n < Pow2(k))

NaN == [k |-> "nan", s |-> 0, m |-> 0, e |-> 0]
Inf(s) == [k |-> "inf", s |-> s, m |-> 0, e |-> 0]
Zero(s) == [k |-> "fin", s |-> s, m |-> 0, e |-> MinExp]

IsNaN(a) == a.k = "nan"
IsInf(a) == a.k = "inf"
IsFin(a) == a.k = "fin"
IsZero(a) == a.k = "fin" /\ a.m = 0

\* An exactly representable m * 2^e (m < 2^24, e >= MinExp) in canonical form;
\* infinity when it is beyond the largest finite float.
Pack(s, m, e) ==
  LET n == BitLen(m)
      room == MantBits - n
      k == IF e - MinExp < room THEN e - MinExp ELSE room
  IN  IF m = 0 THEN Zero(s)
      ELSE IF e - k > MaxExp THEN Inf(s)
      ELSE [k |-> "fin", s |-> s, m |-> m * Pow2(k), e |-> e - k]

\* Round (-1)^s * (sig + t) * 2^e to the nearest float, ties to even, where
\* 0 < t < 1 if sticky and t = 0 otherwise (sig < 2^30; sticky only with
\* sig >= 2^24).
RoundPack(s, sig, e, sticky) ==
  LET n == BitLen(sig)
      sh0 == IF n > MantBits THEN n - MantBits ELSE 0
      sh == IF e + sh0 < MinExp THEN MinExp - e ELSE sh0
  IN  IF sig = 0 THEN Zero(s)
      ELSE IF sh = 0 THEN Pack(s, sig, e)
      ELSE IF sh > n THEN Zero(s)
      ELSE LET q == sig \div Pow2(sh)
               r == sig % Pow2(sh)
               half == Pow2(sh - 1)
               up == r > half \/ (r = half /\ (sticky \/ q % 2 = 1))
               q1 == IF up THEN q + 1 ELSE q
           IN  IF q1 = Pow2(MantBits)
               THEN Pack(s, Pow2(MantBits - 1), e + sh + 1)
               ELSE Pack(s, q1, e + sh)

\* Rounding sig * 2^e (plus the sticky fraction) changes the value: nonzero bits
\* are dropped.  (Overflow to infinity is seen on the result instead.)
Inexact(sig, e, sticky) ==
  LET n == BitLen(sig)
      sh0 == IF n > MantBits THEN n - MantBits ELSE 0
      sh == IF e + sh0 < MinExp THEN MinExp - e ELSE sh0
  IN  sticky \/ (sig # 0 /\ sh > 0 /\ (sh > n \/ sig % Pow2(sh) # 0))

\* x shifted right by d bits, the bits shifted out or-ed into the last bit.
ShiftRightJam(x, d) ==
  IF d = 0 THEN x
  ELSE IF d >= 30 THEN (IF x # 0 THEN 1 ELSE 0)
  ELSE LET q == x \div Pow2(d)
       IN  IF x % Pow2(d) # 0 /\ q % 2 = 0 THEN q + 1 ELSE q

FNeg(a) == IF IsNaN(a) THEN a ELSE [a EXCEPT !.s = 1 - a.s]

FAbs(a) == IF IsNaN(a) THEN a ELSE [a EXCEPT !.s = 0]

\* The shift that brings a nonzero mantissa into [2^23, 2^24).
NormShift(m) == MantBits - BitLen(m)

\* The sum of two finite nonzero floats before rounding: (-1)^s * sig * 2^e,
\* the operands aligned with five guard bits.
AddParts(a, b) ==
  LET hi == IF a.e >= b.e THEN a ELSE b
      lo == IF a.e >= b.e THEN b ELSE a
      A == hi.m * 32
      B == ShiftRightJam(lo.m * 32, hi.e - lo.e)
  IN  IF hi.s = lo.s THEN [s |-> hi.s, sig |-> A + B, e |-> hi.e - 5]
      ELSE IF A > B THEN [s |-> hi.s, sig |-> A - B, e |-> hi.e - 5]
      ELSE IF B > A THEN [s |-> lo.s, sig |-> B - A, e |-> hi.e - 5]
      ELSE [s |-> 0, sig |-> 0, e |-> hi.e - 5]

\* a + b
FAdd(a, b) ==
  IF IsNaN(a) \/ IsNaN(b) THEN NaN
  ELSE IF IsInf(a) THEN (IF IsInf(b) /\ b.s # a.s THEN NaN ELSE a)
  ELSE IF IsInf(b) THEN b
  ELSE IF a.m = 0 /\ b.m = 0 THEN (IF a.s = b.s THEN a ELSE Zero(0))
  ELSE IF a.m = 0 THEN b
  ELSE IF b.m = 0 THEN a
  ELSE LET p == AddParts(a, b) IN RoundPack(p.s, p.sig, p.e, FALSE)

\* a - b
FSub(a, b) == FAdd(a, FNeg(b))

\* The product of two finite nonzero floats before rounding: sig * 2^e plus a
\* sticky fraction, from the 48-bit product of the normalised mantissas
\* (computed in 12-bit halves).
MulParts(a, b) ==
  LET ka == NormShift(a.m)
      kb == NormShift(b.m)
      ma == a.m * Pow2(ka)
      mb == b.m * Pow2(kb)
      a1 == ma \div 4096
      a0 == ma % 4096
      b1 == mb \div 4096
      b0 == mb % 4096
      mid == a1 * b0 + a0 * b1
      losum == a0 * b0 + (mid % 4096) * 4096
      hi48 == a1 * b1 + (mid \div 4096) + (losum \div 16777216)
      lo48 == losum % 16777216
  IN  [sig |-> hi48 * 4 + (lo48 \div 4194304),
       e |-> (a.e - ka) + (b.e - kb) + 22,
       sticky |-> lo48 % 4194304 # 0]

\* a * b
FMul(a, b) ==
  LET s == (a.s + b.s) % 2 IN
  IF IsNaN(a) \/ IsNaN(b) THEN NaN
  ELSE IF IsInf(a) \/ IsInf(b)
       THEN (IF IsZero(a) \/ IsZero(b) THEN NaN ELSE Inf(s))
  ELSE IF a.m = 0 \/ b.m = 0 THEN Zero(s)
  ELSE LET p == MulParts(a, b) IN RoundPack(s, p.sig, p.e, p.sticky)

\* n more quotient bits of rem / d: <<quotient, remainder>>.
RECURSIVE DivBits(_, _, _, _)
DivBits(rem, d, q, n) ==
  IF n = 0 THEN <<q, rem>>
  ELSE IF 2 * rem >= d THEN DivBits(2 * rem - d, d, 2 * q + 1, n - 1)
  ELSE DivBits(2 * rem, d, 2 * q, n - 1)

\* The quotient of two finite nonzero floats before rounding: 27 bits of the
\* quotient of the normalised mantissas, sticky when a remainder is left.
DivParts(a, b) ==
  LET ka == NormShift(a.m)
      kb == NormShift(b.m)
      ma == a.m * Pow2(ka)
      mb == b.m * Pow2(kb)
      qr == DivBits(ma % mb, mb, ma \div mb, 26)
  IN  [sig |-> qr[1], e |-> (a.e - ka) - (b.e - kb) - 26, sticky |-> qr[2] # 0]

\* a / b
FDiv(a, b) ==
  LET s == (a.s + b.s) % 2 IN
  IF IsNaN(a) \/ IsNaN(b) THEN NaN
  ELSE IF IsInf(a) THEN (IF IsInf(b) THEN NaN ELSE Inf(s))
  ELSE IF IsInf(b) THEN Zero(s)
  ELSE IF b.m = 0 THEN (IF a.m = 0 THEN NaN ELSE Inf(s))
  ELSE IF a.m = 0 THEN Zero(s)
  ELSE LET p == DivParts(a, b) IN RoundPack(s, p.sig, p.e, p.sticky)

\* |a| < |b| for floats that are not NaN.
MagLt(a, b) ==
  LET ea == IF IsInf(a) THEN MaxExp + 1 ELSE a.e
      eb == IF IsInf(b) THEN MaxExp + 1 ELSE b.e
  IN  ea < eb \/ (ea = eb /\ a.m < b.m)

\* a < b, a > b, a <= b, a == b as C++ compares floats (false on NaN, -0 == +0).
FLt(a, b) ==
  IF IsNaN(a) \/ IsNaN(b) THEN FALSE
  ELSE IF IsZero(a) /\ IsZero(b) THEN FALSE
  ELSE IF a.s # b.s THEN a.s = 1
  ELSE IF a.s = 0 THEN MagLt(a, b)
  ELSE MagLt(b, a)

FGt(a, b) == FLt(b, a)

FEq(a, b) ==
  IF IsNaN(a) \/ IsNaN(b) THEN FALSE
  ELSE (IsZero(a) /\ IsZero(b)) \/ a = b

FLe(a, b) == FLt(a, b) \/ FEq(a, b)

\* The float m * 2^e for an integer m, |m| < 2^24 (exactly representable).
Flt(m, e) == IF m < 0 THEN Pack(1, -m, e) ELSE Pack(0, m, e)

(***************************************************************************)
(* LineEq                                                                  *)
(***************************************************************************)
VARIABLES
  lineEq,   \* the private member _lineEq (lineEq_t)
  creates,  \* create calls made on the instance so far: 0, 1, or 2 for more
  args,     \* the arguments of the last create call
  op,       \* the last operation: "init", "create" or "evaluate"
  xin,      \* the argument of the last evaluate call since the last create
  ret,      \* the value that call returned
  memo,     \* the first evaluate call since the last create: [set, x, y]
  wpc,      \* two threads: the line of create the writer thread is at
  wcalls,   \* two threads: create calls the writer thread has begun
  before,   \* two threads: _lineEq when the writer's last create call began
  rd,       \* two threads: the line of evaluate the reader thread is at, and
            \* its local y and the operands it has loaded
  seen      \* two threads: per member, the values it has held since the
            \* reader's evaluate call began

seqvars == <<lineEq, creates, args, op, xin, ret, memo>>
concvars == <<wpc, wcalls, before, rd, seen>>
vars == <<seqvars, concvars>>

\* The literal 1e-6f: 0x358637BD = 8796093 * 2^-43.
EpsilonMant == 8796093
EpsilonExp == -43
Epsilon == Flt(EpsilonMant, EpsilonExp)

InitLineEqUnit ==
  [slope |-> Flt(1, 0), y_intercept |-> Zero(0), min_output |-> Zero(0),
   max_output |-> Flt(100, 0), isVertical |-> FALSE]

\* lineEq_t _lineEq = { 0.0f, 0.0f, 0.0f, 0.0f, false };
InitLineEq ==
  [slope |-> Zero(0), y_intercept |-> Zero(0), min_output |-> Zero(0),
   max_output |-> Zero(0), isVertical |-> FALSE]

IsVerticalExactZero(dx) == FEq(dx, Zero(0))

\* std::fabs(dx) < 1e-6f
IsVerticalLine(dx) == FLt(FAbs(dx), Epsilon)

SlopeInverted(dy, dx) == FDiv(dx, dy)

\* dy / dx
Slope(dy, dx) == FDiv(dy, dx)

InterceptSignSlip(slope, p1) == FAdd(p1.y, FMul(slope, p1.x))

\* p1.y - _lineEq.slope * p1.x
Intercept(slope, p1) == FSub(p1.y, FMul(slope, p1.x))

CreateKeepsSlope(st, p1, p2, minOut, maxOut) ==
  LET st1 == [st EXCEPT !.min_output = minOut, !.max_output = maxOut]
      dx == FSub(p2.x, p1.x)
      dy == FSub(p2.y, p1.y)
  IN  IF IsVerticalLine(dx)
      THEN [st1 EXCEPT !.isVertical = TRUE, !.y_intercept = p1.x]
      ELSE LET st2 == [st1 EXCEPT !.isVertical = FALSE, !.slope = Slope(dy, dx)]
           IN  [st2 EXCEPT !.y_intercept = Intercept(st2.slope, p1)]

\* LineEq::create: the object after create(p1, p2, minOut, maxOut) on object st.
Create(st, p1, p2, minOut, maxOut) ==
  LET st1 == [st EXCEPT !.min_output = minOut, !.max_output = maxOut]
      dx == FSub(p2.x, p1.x)
      dy == FSub(p2.y, p1.y)
  IN  IF IsVerticalLine(dx)
      THEN [st1 EXCEPT !.isVertical = TRUE, !.slope = Zero(0),
                       !.y_intercept = p1.x]
      ELSE LET st2 == [st1 EXCEPT !.isVertical = FALSE, !.slope = Slope(dy, dx)]
           IN  [st2 EXCEPT !.y_intercept = Intercept(st2.slope, p1)]

LineValueNoIntercept(slope, x, intercept) == FMul(slope, x)

\* _lineEq.slope * x + _lineEq.y_intercept
LineValue(slope, x, intercept) == FAdd(FMul(slope, x), intercept)

\* LineEq::evaluate, "Calculate y based on line type".
RawY(st, x) ==
  IF ~st.isVertical THEN LineValue(st.slope, x, st.y_intercept)
  ELSE st.y_intercept

LimitNoUpper(y, st) ==
  IF FLt(y, st.min_output) THEN st.min_output ELSE y

\* LineEq::evaluate, "Apply output limits".
Limit(y, st) ==
  IF FLt(y, st.min_output) THEN st.min_output
  ELSE IF FGt(y, st.max_output) THEN st.max_output
  ELSE y

\* LineEq::evaluate: the value evaluate(x) returns on object st.
Evaluate(st, x) == Limit(RawY(st, x), st)

EvaluateStoresResult(st, x) == [st EXCEPT !.y_intercept = Evaluate(st, x)]

\* LineEq::evaluate: the object after evaluate(x) on object st (the function
\* assigns to its local y only).
EvaluateObject(st, x) == st

(***************************************************************************)
(* Inputs                                                                  *)
(***************************************************************************)
FInt(n) == Flt(n, 0)
Pt(px, py) == [x |-> px, y |-> py]
Call(p1, p2, minOut, maxOut) ==
  [p1 |-> p1, p2 |-> p2, minOut |-> minOut, maxOut |-> maxOut]

\* Largest finite float (FLT_MAX) and a positive float below 1e-6f (2^-21).
FltMax == Flt(16777215, MaxExp)
Tiny == Flt(1, -21)

\* Grid points (0..MaxCoord) x (0..1) for create.
MaxCoord == 1
GridPoints == {Pt(FInt(i), FInt(j)) : i \in 0..MaxCoord, j \in 0..1}

\* Output limits tried with every pair of grid points: ordered and inverted.
GridLimits == {<<FInt(0), FInt(10)>>, <<FInt(10), FInt(0)>>}

GridCalls ==
  {Call(p1, p2, l[1], l[2]) : p1 \in GridPoints, p2 \in GridPoints, l \in GridLimits}

\* The create calls of README.md.
BasicCall == Call(Pt(FInt(0), FInt(0)), Pt(FInt(5), FInt(5)), FInt(0), FInt(10))
UsageCall == Call(Pt(FInt(1), FInt(2)), Pt(FInt(3), FInt(4)), FInt(-10), FInt(10))
ScalingCall ==
  Call(Pt(FInt(4), FInt(-40)), Pt(FInt(20), FInt(85)), FInt(-40), FInt(85))

\* Edge cases: a vertical line, two points closer than 1e-6 in x, one point
\* given twice, a slope that is not a float (3/42), inverted limits, and
\* points whose dy overflows.
VerticalCall == Call(Pt(FInt(5), FInt(1)), Pt(FInt(5), FInt(9)), FInt(0), FInt(100))
NearVerticalCall == Call(Pt(FInt(0), FInt(1)), Pt(Tiny, FInt(2)), FInt(0), FInt(10))
SamePointCall == Call(Pt(FInt(2), FInt(2)), Pt(FInt(2), FInt(2)), FInt(-10), FInt(10))
RoundedCall == Call(Pt(FInt(0), FInt(0)), Pt(FInt(42), FInt(3)), FInt(0), FInt(10))
InvertedCall == Call(Pt(FInt(0), FInt(0)), Pt(FInt(5), FInt(5)), FInt(10), FInt(0))
OverflowCall == Call(Pt(FInt(0), FNeg(FltMax)), Pt(FInt(1), FltMax), FInt(0), FInt(10))
OverflowInvertedCall ==
  Call(Pt(FInt(0), FNeg(FltMax)), Pt(FInt(1), FltMax), FInt(10), FInt(0))

ExampleCalls ==
  {BasicCall, UsageCall, ScalingCall, VerticalCall, NearVerticalCall, SamePointCall,
   RoundedCall, InvertedCall, OverflowCall, OverflowInvertedCall}

Calls == GridCalls \cup ExampleCalls

\* The arguments of evaluate: finite floats.
XValues == {FInt(0), FInt(2), FInt(3), FInt(12), FInt(42), FInt(-1)}

\* The reader thread outside evaluate, and the members as one set each.
Idle(pc) == [pc |-> pc, y |-> Zero(0), slope |-> NaN, intercept |-> NaN]
Holds(st) ==
  [slope |-> {st.slope}, y_intercept |-> {st.y_intercept},
   min_output |-> {st.min_output}, max_output |-> {st.max_output},
   isVertical |-> {st.isVertical}]

NoCall == Call(Pt(Zero(0), Zero(0)), Pt(Zero(0), Zero(0)), Zero(0), Zero(0))
NoMemo == [set |-> FALSE, x |-> Zero(0), y |-> Zero(0)]

(***************************************************************************)
(* One instance used by one thread                                         *)
(***************************************************************************)
Init ==
  /\ lineEq = InitLineEq
  /\ creates = 0
  /\ args = NoCall
  /\ op = "init"
  /\ xin = Zero(0)
  /\ ret = Zero(0)
  /\ memo = NoMemo
  /\ wpc = "idle"
  /\ wcalls = 0
  /\ before = InitLineEq
  /\ rd = Idle("idle")
  /\ seen = Holds(InitLineEq)

CreateCall(c) ==
  /\ lineEq' = Create(lineEq, c.p1, c.p2, c.minOut, c.maxOut)
  /\ creates' = IF creates = 0 THEN 1 ELSE 2
  /\ args' = c
  /\ op' = "create"
  /\ xin' = Zero(0)
  /\ ret' = Zero(0)
  /\ memo' = NoMemo
  /\ UNCHANGED concvars

EvaluateCall(x) ==
  /\ ret' = Evaluate(lineEq, x)
  /\ lineEq' = EvaluateObject(lineEq, x)
  /\ xin' = x
  /\ op' = "evaluate"
  /\ memo' = IF memo.set THEN memo ELSE [set |-> TRUE, x |-> x, y |-> ret']
  /\ UNCHANGED <<creates, args>>
  /\ UNCHANGED concvars

Next ==
  \/ \E c \in Calls : CreateCall(c)
  \/ \E x \in XValues : EvaluateCall(x)

Spec == Init /\ [][Next]_vars

(***************************************************************************)
(* One instance shared by two threads without synchronisation: the writer  *)
(* thread calls create while the reader thread calls evaluate.  A step is  *)
(* one statement of the source in program order; each load and store of a  *)
(* member is one access and sees the last value stored.  The operands of   *)
(* slope * x + y_intercept are loaded in either order.                     *)
(***************************************************************************)
\* The instance is shared after construction or after a first create.
ConcCalls == {BasicCall, ScalingCall, VerticalCall}
ConcXValues == {FInt(12), FInt(3)}
MaxConcCreates == 1

InitConc ==
  /\ \E st \in {InitLineEq}
              \cup {Create(InitLineEq, c.p1, c.p2, c.minOut, c.maxOut) : c \in ConcCalls} :
       /\ lineEq = st
       /\ before = st
       /\ seen = Holds(st)
  /\ creates = 0
  /\ args = NoCall
  /\ op = "init"
  /\ xin = Zero(0)
  /\ ret = Zero(0)
  /\ memo = NoMemo
  /\ wpc = "idle"
  /\ wcalls = 0
  /\ rd = Idle("idle")

ReaderIn == rd.pc \notin {"idle", "returned"}

\* A store of value v to member f by the writer thread, then on to line pc.
Store(f, v, pc) ==
  /\ lineEq' = [lineEq EXCEPT ![f] = v]
  /\ seen' = IF ReaderIn THEN [seen EXCEPT ![f] = @ \cup {v}] ELSE seen
  /\ wpc' = pc
  /\ UNCHANGED <<creates, args, op, xin, ret, memo, wcalls, before, rd>>

\* create(p1, p2, minOut, maxOut) is called.
WCall(c) ==
  /\ wpc \in {"idle", "returned"}
  /\ wcalls < MaxConcCreates
  /\ wcalls' = wcalls + 1
  /\ args' = c
  /\ before' = lineEq
  /\ wpc' = "25"
  /\ UNCHANGED <<lineEq, creates, op, xin, ret, memo, rd, seen>>

\* _lineEq.min_output = minOut;
W25 == wpc = "25" /\ Store("min_output", args.minOut, "26")

\* _lineEq.max_output = maxOut;  dx, dy;  if (std::fabs(dx) < 1e-6f)
W26 ==
  /\ wpc = "26"
  /\ Store("max_output", args.maxOut,
           IF IsVerticalLine(FSub(args.p2.x, args.p1.x)) THEN "34" ELSE "38")

\* _lineEq.isVertical = true;
W34 == wpc = "34" /\ Store("isVertical", TRUE, "35")

\* _lineEq.slope = 0.0f;
W35 == wpc = "35" /\ Store("slope", Zero(0), "36")

\* _lineEq.y_intercept = p1.x;
W36 == wpc = "36" /\ Store("y_intercept", args.p1.x, "returned")

\* _lineEq.isVertical = false;
W38 == wpc = "38" /\ Store("isVertical", FALSE, "39")

\* _lineEq.slope = dy / dx;
W39 ==
  /\ wpc = "39"
  /\ Store("slope", Slope(FSub(args.p2.y, args.p1.y), FSub(args.p2.x, args.p1.x)),
           "40")

\* _lineEq.y_intercept = p1.y - _lineEq.slope * p1.x;
W40 ==
  /\ wpc = "40"
  /\ Store("y_intercept", Intercept(lineEq.slope, args.p1), "returned")

\* A step of the reader thread inside evaluate: its locals change, nothing else.
Read(new) ==
  /\ rd' = new
  /\ UNCHANGED <<lineEq, creates, args, op, xin, ret, memo, wpc, wcalls, before, seen>>

\* evaluate(x) is called:  float y = 0.0f;
RCall(x) ==
  /\ rd.pc \in {"idle", "returned"}
  /\ xin' = x
  /\ rd' = Idle("54")
  /\ seen' = Holds(lineEq)
  /\ UNCHANGED <<lineEq, creates, args, op, ret, memo, wpc, wcalls, before>>

\* if (!_lineEq.isVertical)
R54 ==
  /\ rd.pc = "54"
  /\ Read([rd EXCEPT !.pc = IF ~lineEq.isVertical THEN "55" ELSE "58"])

\* y = _lineEq.slope * x + _lineEq.y_intercept;  one operand is loaded
R55Slope ==
  /\ rd.pc \in {"55", "55i"}
  /\ Read(IF rd.pc = "55" THEN [rd EXCEPT !.pc = "55s", !.slope = lineEq.slope]
          ELSE [Idle("62") EXCEPT !.y = LineValue(lineEq.slope, xin, rd.intercept)])

R55Intercept ==
  /\ rd.pc \in {"55", "55s"}
  /\ Read(IF rd.pc = "55" THEN [rd EXCEPT !.pc = "55i", !.intercept = lineEq.y_intercept]
          ELSE [Idle("62") EXCEPT !.y = LineValue(rd.slope, xin, lineEq.y_intercept)])

\* y = _lineEq.y_intercept;
R58 ==
  /\ rd.pc = "58"
  /\ Read([rd EXCEPT !.pc = "62", !.y = lineEq.y_intercept])

\* if (y < _lineEq.min_output)
R62 ==
  /\ rd.pc = "62"
  /\ Read([rd EXCEPT !.pc = IF FLt(rd.y, lineEq.min_output) THEN "63" ELSE "64"])

\* y = _lineEq.min_output;
R63 ==
  /\ rd.pc = "63"
  /\ Read([rd EXCEPT !.pc = "68", !.y = lineEq.min_output])

\* else if (y > _lineEq.max_output)
R64 ==
  /\ rd.pc = "64"
  /\ Read([rd EXCEPT !.pc = IF FGt(rd.y, lineEq.max_output) THEN "65" ELSE "68"])

\* y = _lineEq.max_output;
R65 ==
  /\ rd.pc = "65"
  /\ Read([rd EXCEPT !.pc = "68", !.y = lineEq.max_output])

\* return y;
R68 ==
  /\ rd.pc = "68"
  /\ ret' = rd.y
  /\ rd' = Idle("returned")
  /\ UNCHANGED <<lineEq, creates, args, op, xin, memo, wpc, wcalls, before, seen>>

NextConc ==
  \/ \E c \in ConcCalls : WCall(c)
  \/ W25 \/ W26 \/ W34 \/ W35 \/ W36 \/ W38 \/ W39 \/ W40
  \/ \E x \in ConcXValues : RCall(x)
  \/ R54 \/ R55Slope \/ R55Intercept \/ R58 \/ R62 \/ R63 \/ R64 \/ R65 \/ R68

SpecConc == InitConc /\ [][NextConc]_vars

(***************************************************************************)
(* Properties of one instance used by one thread                           *)
(***************************************************************************)
Evaluated == op = "evaluate"

\* lo <= y <= hi as C++ compares floats.
Within(y, lo, hi) == FLe(lo, y) /\ FLe(y, hi)

\* The line through the two points of call c, from the points themselves.
RefDx(c) == FSub(c.p2.x, c.p1.x)
RefDy(c) == FSub(c.p2.y, c.p1.y)
RefSlope(c) == FDiv(RefDy(c), RefDx(c))
RefIntercept(c) == FSub(c.p1.y, FMul(RefSlope(c), c.p1.x))
RefLine(c, x) == FAdd(FMul(RefSlope(c), x), RefIntercept(c))

\* |p2.x - p1.x| >= 1e-6, as create tests it.
ApartInX(c) == ~FLt(FAbs(RefDx(c)), Epsilon)

\* The float operation on a and b gives the exact real result.
ExactAdd(a, b) ==
  /\ IsFin(a) /\ IsFin(b) /\ IsFin(FAdd(a, b))
  /\ a.m = 0 \/ b.m = 0 \/ LET p == AddParts(a, b) IN ~Inexact(p.sig, p.e, FALSE)
ExactSub(a, b) == ExactAdd(a, FNeg(b))
ExactMul(a, b) ==
  /\ IsFin(a) /\ IsFin(b) /\ IsFin(FMul(a, b))
  /\ a.m = 0 \/ b.m = 0 \/ LET p == MulParts(a, b) IN ~Inexact(p.sig, p.e, p.sticky)
ExactDiv(a, b) ==
  /\ IsFin(a) /\ IsFin(b) /\ b.m # 0 /\ IsFin(FDiv(a, b))
  /\ a.m = 0 \/ LET p == DivParts(a, b) IN ~Inexact(p.sig, p.e, p.sticky)

\* No operation of create(c) rounds; no operation of evaluate(x) after it rounds.
ExactCreate(c) ==
  /\ ExactSub(c.p2.x, c.p1.x)
  /\ ExactSub(c.p2.y, c.p1.y)
  /\ ExactDiv(RefDy(c), RefDx(c))
  /\ ExactMul(RefSlope(c), c.p1.x)
  /\ ExactSub(c.p1.y, FMul(RefSlope(c), c.p1.x))
ExactEvaluate(c, x) ==
  /\ ExactMul(RefSlope(c), x)
  /\ ExactAdd(FMul(RefSlope(c), x), RefIntercept(c))

\* C1: whenever min_output <= max_output, evaluate(x) returns a value y with
\* min_output <= y <= max_output, for every configuration (the unconfigured one
\* included) and every x.
C1_OutputWithinLimits ==
  (Evaluated /\ FLe(lineEq.min_output, lineEq.max_output))
    => Within(ret, lineEq.min_output, lineEq.max_output)

\* C1, restricted: it holds wherever the unclamped value is a number: the only results outside
\* the limits are NaN.
C1_OutputWithinLimitsOrNaN ==
  (Evaluated /\ FLe(lineEq.min_output, lineEq.max_output))
    => (Within(ret, lineEq.min_output, lineEq.max_output) \/ IsNaN(ret))

\* C2 as claimed: for a line configured from p1, p2 with x1 != x2 and any x whose
\* unclamped result lies within [minOutput, maxOutput], evaluate(x) equals
\* slope*x + intercept with slope = (y2-y1)/(x2-x1), intercept = y1 - slope*x1.
C2_LinearWhenXDiffer ==
  (creates > 0 /\ Evaluated /\ ~FEq(args.p1.x, args.p2.x)
     /\ Within(RefLine(args, xin), args.minOut, args.maxOut))
    => ret = RefLine(args, xin)

\* C2 amended: the same with |x2 - x1| >= 1e-6 in place of x1 != x2.
C2_LinearWhenApart ==
  (creates > 0 /\ Evaluated /\ ApartInX(args)
     /\ Within(RefLine(args, xin), args.minOut, args.maxOut))
    => ret = RefLine(args, xin)

\* C2: the scaling line (4,-40), (20,85) gives 22.5 at 12, inside [-40,85].
C2_Witness ==
  /\ Evaluated /\ args = ScalingCall /\ xin = FInt(12) /\ ret = Flt(45, -1)
  /\ ApartInX(args)

\* C3 as claimed: evaluate(x1) equals y1 and evaluate(x2) equals y2, provided
\* y1 and y2 both lie within [minOutput, maxOutput].
C3_PassThrough ==
  (creates > 0 /\ Evaluated
     /\ Within(args.p1.y, args.minOut, args.maxOut)
     /\ Within(args.p2.y, args.minOut, args.maxOut))
    => /\ FEq(xin, args.p1.x) => FEq(ret, args.p1.y)
       /\ FEq(xin, args.p2.x) => FEq(ret, args.p2.y)

\* C3 fails for lines that are not vertical too, by rounding alone.
C3_PassThroughWhenApart ==
  (creates > 0 /\ Evaluated /\ ApartInX(args)
     /\ Within(args.p1.y, args.minOut, args.maxOut)
     /\ Within(args.p2.y, args.minOut, args.maxOut))
    => /\ FEq(xin, args.p1.x) => FEq(ret, args.p1.y)
       /\ FEq(xin, args.p2.x) => FEq(ret, args.p2.y)

\* C3 amended: the same for |x2 - x1| >= 1e-6 and when no float operation of
\* create and of the evaluate call rounds its result.
C3_PassThroughWhenExact ==
  (creates > 0 /\ Evaluated /\ ApartInX(args)
     /\ Within(args.p1.y, args.minOut, args.maxOut)
     /\ Within(args.p2.y, args.minOut, args.maxOut)
     /\ ExactCreate(args) /\ ExactEvaluate(args, xin))
    => /\ FEq(xin, args.p1.x) => FEq(ret, args.p1.y)
       /\ FEq(xin, args.p2.x) => FEq(ret, args.p2.y)

\* C3: the line through (1,2), (3,4), computed without rounding, gives 4 at 3.
C3_Witness ==
  /\ Evaluated /\ args = UsageCall /\ xin = args.p2.x /\ ret = FInt(4)
  /\ ExactCreate(args) /\ ExactEvaluate(args, xin)

\* C4: when min_output <= max_output, evaluate(x) is the reference clamp of the
\* raw line value: min_output when raw < min_output, max_output when
\* raw > max_output, raw itself otherwise, raw = slope*x + y_intercept for a line
\* that is not vertical; y = x limited to [0,10] gives 10 at 12, and the line
\* through (4,-40), (20,85) limited to [-40,85] gives -40 at 3.
C4_ReferenceClamp ==
  LET raw == IF lineEq.isVertical THEN lineEq.y_intercept
             ELSE FAdd(FMul(lineEq.slope, xin), lineEq.y_intercept)
  IN  (Evaluated /\ FLe(lineEq.min_output, lineEq.max_output))
        => /\ FLt(raw, lineEq.min_output) => ret = lineEq.min_output
           /\ FGt(raw, lineEq.max_output) => ret = lineEq.max_output
           /\ (~FLt(raw, lineEq.min_output) /\ ~FGt(raw, lineEq.max_output))
                => ret = raw
           /\ (args = BasicCall /\ xin = FInt(12)) => ret = FInt(10)
           /\ (args = ScalingCall /\ xin = FInt(3)) => ret = FInt(-40)

\* C4: y = x limited to [0,10] saturates at 10 for x = 12.
C4_Witness ==
  /\ Evaluated /\ args = BasicCall /\ xin = FInt(12) /\ ret = FInt(10)
  /\ FGt(FAdd(FMul(lineEq.slope, xin), lineEq.y_intercept), lineEq.max_output)

\* C5: configuring with p1.x == p2.x or |p2.x - p1.x| < 1e-6 (two identical
\* points included) yields a vertical line: evaluate(x) is p1.x clamped to
\* [min_output, max_output] for every x, whatever p1.y and p2.y are.
C5_VerticalConstant ==
  (creates > 0 /\ Evaluated
     /\ (FEq(args.p1.x, args.p2.x) \/ FLt(FAbs(RefDx(args)), Epsilon)))
    => /\ lineEq.isVertical
       /\ ret = IF FLt(args.p1.x, args.minOut) THEN args.minOut
                ELSE IF FGt(args.p1.x, args.maxOut) THEN args.maxOut
                ELSE args.p1.x

\* C5: points 2^-21 apart in x make a vertical line; evaluate(12) is p1.x = 0.
C5_Witness ==
  /\ Evaluated /\ args = NearVerticalCall /\ xin = FInt(12)
  /\ ~FEq(args.p1.x, args.p2.x) /\ lineEq.isVertical /\ ret = args.p1.x

\* C6: after any sequence of create calls the stored state, and so the result
\* of every evaluate, is that of a fresh instance on which only the last create
\* call was made.
C6_LastCreateOnly ==
  LET fresh == Create(InitLineEq, args.p1, args.p2, args.minOut, args.maxOut)
  IN  creates > 0
        => /\ lineEq = fresh
           /\ Evaluated => ret = Evaluate(fresh, xin)

\* C6: a vertical line configured over an earlier configuration, then evaluated.
C6_Witness ==
  /\ creates = 2 /\ Evaluated /\ args = VerticalCall /\ xin = FInt(12)
  /\ ret = FInt(5) /\ lineEq.slope = Zero(0)

\* C7: on an instance on which create has never been called, evaluate(x)
\* returns 0 for every x.
C7_UnconfiguredZero ==
  (creates = 0 /\ Evaluated) => (lineEq = InitLineEq /\ FEq(ret, Zero(0)))

\* C7: evaluate(42) on the unconfigured instance.
C7_Witness ==
  creates = 0 /\ Evaluated /\ xin = FInt(42) /\ FEq(ret, Zero(0))

\* C8: evaluate leaves slope, y_intercept, min_output, max_output and
\* isVertical unchanged, and returns for an x what the first evaluate since the
\* last create returned for that x.
C8_EvaluateReadOnly ==
  [][op' = "evaluate"
       => /\ lineEq' = lineEq
          /\ (memo.set /\ xin' = memo.x) => ret' = memo.y]_vars

\* C8: a second evaluate on the scaling line, the intercept -71.25 still in place.
C8_Witness ==
  /\ creates > 0 /\ Evaluated /\ memo.set /\ memo.x = FInt(12) /\ xin = FInt(3)
  /\ args = ScalingCall /\ lineEq.y_intercept = Flt(-285, -2)

\* What evaluate(x) can return when each member it loads holds one of the
\* values of h: every choice of a value per load (min_output and max_output
\* are loaded for the comparison and again for the assignment).
MixResults(h, x) ==
  { LET y == IF ~isv THEN FAdd(FMul(sl, x), ic) ELSE ic
    IN  IF FLt(y, mn[1]) THEN mn[2] ELSE IF FGt(y, mx[1]) THEN mx[2] ELSE y :
      isv \in h.isVertical, sl \in h.slope, ic \in h.y_intercept,
      mn \in h.min_output \X h.min_output, mx \in h.max_output \X h.max_output }

\* C9: create stores the members one at a time, so an evaluate(x) running
\* while create runs on the same instance reads a mix of old and new members:
\* what it returns is the clamp of such a mix (and of the members themselves
\* when no store fell into the call), and it can be a value that neither the
\* configuration before the create nor the one after it returns for x.
C9_TornMix == rd.pc = "returned" => ret \in MixResults(seen, xin)

\* C9: new limits with the old slope and intercept: y = x limited to [0,10] is being
\* replaced by the scaling line limited to [-40,85]; evaluate(12) returns 12,
\* the old line gives 10 and the new one 22.5.
C9_Witness ==
  /\ rd.pc = "returned" /\ xin = FInt(12) /\ ret = FInt(12)
  /\ before = Create(InitLineEq, BasicCall.p1, BasicCall.p2, BasicCall.minOut,
                     BasicCall.maxOut)
  /\ args = ScalingCall
  /\ Evaluate(before, xin) = FInt(10)
  /\ Evaluate(Create(before, args.p1, args.p2, args.minOut, args.maxOut), xin)
       = Flt(45, -1)

\* C10: with min_output > max_output evaluate(x) returns one of the two limits
\* and never the raw line value: min_output when raw < min_output, max_output
\* otherwise.
C10_InvertedLimits ==
  LET raw == RawY(lineEq, xin)
  IN  (creates > 0 /\ Evaluated /\ FGt(lineEq.min_output, lineEq.max_output))
        => /\ FLt(raw, lineEq.min_output) => ret = lineEq.min_output
           /\ ~FLt(raw, lineEq.min_output) => ret = lineEq.max_output

\* C10, restricted: it holds wherever the raw line value is a number.
C10_InvertedLimitsOrNaN ==
  LET raw == RawY(lineEq, xin)
  IN  (creates > 0 /\ Evaluated /\ FGt(lineEq.min_output, lineEq.max_output)
         /\ ~IsNaN(raw))
        => /\ FLt(raw, lineEq.min_output) => ret = lineEq.min_output
           /\ ~FLt(raw, lineEq.min_output) => ret = lineEq.max_output

====
